---- MODULE Spec2Model ----
(***************************************************************************)
(* The session state machine of src/App.tsx: one uploaded image, a result  *)
(* slot per tool, the asynchronous file read of handleFileChange and the   *)
(* asynchronous transform call of handleProcessImage.  Every handler is an *)
(* atomic step (the JavaScript event loop runs a handler, and the part of  *)
(* an async function between two awaits, to completion); the awaits are    *)
(* the interleaving points.  A handler is enabled when the element that    *)
(* carries it is rendered (and, for the process button, not disabled).     *)
(* Strings the code inspects (MIME types, the edit text) are sequences of  *)
(* tokens, so that startsWith, trim and the data URL template are computed.*)
(***************************************************************************)
EXTENDS Integers, Sequences, FiniteSets, TLC

VARIABLES
    originalImage,      \* useState<string | null>            App.tsx:18
    processedImages,    \* useState<ProcessedImages>          App.tsx:19
    file,               \* useState<File | null>              App.tsx:20
    isLoading,          \* useState<boolean>                  App.tsx:21
    error,              \* useState<string | null>            App.tsx:22
    activeTool,         \* useState<Tool>                     App.tsx:23
    editText,           \* useState<string>                   App.tsx:24
    reading,            \* handleFileChange calls suspended at `await fileToBase64`
    pending,            \* handleProcessImage calls suspended at `await <tool>Image(...)`
    started,            \* number of file reads and transform calls started so far
    last                \* the event that produced the current state

vars == << originalImage, processedImages, file, isLoading, error, activeTool,
           editText, reading, pending, started, last >>

session == << originalImage, processedImages, file, isLoading, error, activeTool,
              editText >>

----------------------------------------------------------------------------
(* Bounds of the model *)

\* the asynchronous operations (file reads and transform calls) of a run
MaxStarts == 4

----------------------------------------------------------------------------
(* Values *)

NULL == "null"

Tool == {"removeText", "removeBackground", "enhance", "restore", "colorize", "edit"}

\* The files the user can pick; NoFile is `event.target.files?.[0]` undefined.
NoFile == "none"
Files == {"a.png", "b.jpg", "c.txt"}

\* File.type of each file
FileType(f) ==
    CASE f = "a.png" -> << "image", "/", "png" >>
      [] f = "b.jpg" -> << "image", "/", "jpeg" >>
      [] f = "c.txt" -> << "text", "/", "plain" >>
      [] OTHER       -> << >>

\* selectedFile.type.startsWith('image/')
StartsWithImage(type) ==
    /\ Len(type) >= 2
    /\ type[1] = "image"
    /\ type[2] = "/"

\* what fileToBase64 resolves with for a file: its data URL
fileToBase64(f) ==
    CASE f = "a.png" -> "data:image/png;base64,A"
      [] f = "b.jpg" -> "data:image/jpeg;base64,B"
      [] OTHER       -> "data:text/plain;base64,C"

\* what the user types into the textarea: nothing, blanks, a word between blanks
Texts == { << >>, << " ", " " >>, << " ", "x", " " >> }

RECURSIVE TrimStart(_)
TrimStart(s) ==
    IF s = << >> THEN << >>
    ELSE IF Head(s) = " " THEN TrimStart(Tail(s)) ELSE s

RECURSIVE TrimEnd(_)
TrimEnd(s) ==
    IF s = << >> THEN << >>
    ELSE IF s[Len(s)] = " " THEN TrimEnd(SubSeq(s, 1, Len(s) - 1)) ELSE s

\* String.prototype.trim
Trim(s) == TrimEnd(TrimStart(s))

\* a slot of processedImages: key absent, null, or a ProcessedImage
Undefined == [kind |-> "undefined"]
Null == [kind |-> "null"]
ProcessedImage(dataUrl, mimeType) ==
    [kind |-> "image", dataUrl |-> dataUrl, mimeType |-> mimeType]

\* truthiness of a slot (`currentResult ? ... : ...`)
Truthy(slot) == slot.kind = "image"

EmptyResults == [t \in Tool |-> Undefined]

Filled(p) == Cardinality({t \in Tool : Truthy(p[t])})

RemoveAt(s, i) == SubSeq(s, 1, i - 1) \o SubSeq(s, i + 1, Len(s))

----------------------------------------------------------------------------
(* The external collaborators *)

\* MIME types the transform service answers with
ResultMimes == { << "image", "/", "png" >> }

\* what the service throws: an Error with a message, or a value that is no Error
Rejections == {"Error:quota", "notAnError"}

\* result.data of the transform of `image` by `tool`
TransformData(call) == << call.tool, call.image >>

\* err instanceof Error ? err.message : 'Ocurrio un error desconocido.'
errorMessage(err) ==
    IF err = "Error:quota" THEN "quota" ELSE "Ocurrio un error desconocido."

\* `Fallo el proceso: ${errorMessage}`
ProcessFailed(msg) ==
    IF msg = "quota" THEN "Fallo el proceso: quota"
    ELSE "Fallo el proceso: Ocurrio un error desconocido."

TransformErrors == { ProcessFailed(errorMessage(e)) : e \in Rejections }

\* the other messages of setError
MsgInvalidFile == "Por favor, selecciona un archivo de imagen valido."
MsgReadFailed == "Error al leer el archivo de imagen."
MsgUploadFirst == "Por favor, sube una imagen primero."
MsgEditTextMissing == "Por favor, escribe que quieres cambiar en la imagen."

----------------------------------------------------------------------------
(* What is rendered *)

\* {!originalImage && ( ... <input id="file-upload" onChange={handleFileChange}> )}
UploadRendered == originalImage = NULL

\* {originalImage && ( tabs, textarea, process button, reset button )}
EditorRendered == originalImage # NULL

\* <button onClick={handleProcessImage} disabled={isLoading}>
ProcessNeverDisabled == FALSE
ProcessDisabled == isLoading

\* const currentResult = processedImages[activeTool]
currentResult == processedImages[activeTool]

----------------------------------------------------------------------------
(* State changes *)

\* the event record kept in `last`: the handler that ran, its argument (the
\* file of an upload, the tool of a tab or of a transform call) and, for a
\* completed upload, whether a result was cached when it completed
Event(op, arg) ==
    [op |-> op, arg |-> arg,
     overResults |-> (op = "uploaded" /\ Filled(processedImages) > 0)]

\* the values resetState sets
resetStateKeepingResults ==
    [originalImage |-> NULL, processedImages |-> processedImages, file |-> NULL,
     isLoading |-> FALSE, error |-> NULL, activeTool |-> "removeText",
     editText |-> << >>]
resetStateKeepingTool ==
    [originalImage |-> NULL, processedImages |-> EmptyResults, file |-> NULL,
     isLoading |-> FALSE, error |-> NULL, activeTool |-> activeTool,
     editText |-> << >>]
resetState ==
    [originalImage |-> NULL, processedImages |-> EmptyResults, file |-> NULL,
     isLoading |-> FALSE, error |-> NULL, activeTool |-> "removeText",
     editText |-> << >>]

Init ==
    /\ originalImage = NULL
    /\ processedImages = EmptyResults
    /\ file = NULL
    /\ isLoading = FALSE
    /\ error = NULL
    /\ activeTool = "removeText"
    /\ editText = << >>
    /\ reading = << >>
    /\ pending = << >>
    /\ started = 0
    /\ last = [op |-> "init", arg |-> "", overResults |-> FALSE]

\* handleFileChange up to `await fileToBase64(selectedFile)`
FileAccepted(f) ==
    /\ UploadRendered
    /\ started < MaxStarts
    /\ f # NoFile
    /\ StartsWithImage(FileType(f))
    /\ started' = started + 1
    /\ reading' = Append(reading, f)
    /\ last' = Event("fileAccepted", f)
    /\ UNCHANGED << session, pending >>

\* handleFileChange, else branch: no file, or a type that is no image type
FileRejected(f) ==
    /\ UploadRendered
    /\ f = NoFile \/ ~ StartsWithImage(FileType(f))
    /\ error' = MsgInvalidFile
    /\ originalImage' = NULL
    /\ file' = NULL
    /\ last' = Event("fileRejected", f)
    /\ UNCHANGED << processedImages, isLoading, activeTool, editText, reading,
                    pending, started >>

\* handleFileChange after fileToBase64 resolved: resetState(false);
\* setOriginalImage(base64); setFile(selectedFile)
ReadResolvesWithoutFile(i) ==
    /\ i \in 1..Len(reading)
    /\ originalImage' = fileToBase64(reading[i])
    /\ file' = resetState.file
    /\ processedImages' = resetState.processedImages
    /\ isLoading' = resetState.isLoading
    /\ error' = resetState.error
    /\ activeTool' = resetState.activeTool
    /\ editText' = resetState.editText
    /\ reading' = RemoveAt(reading, i)
    /\ last' = Event("uploaded", reading[i])
    /\ UNCHANGED << pending, started >>
ReadResolves(i) ==
    /\ i \in 1..Len(reading)
    /\ originalImage' = fileToBase64(reading[i])
    /\ file' = reading[i]
    /\ processedImages' = resetState.processedImages
    /\ isLoading' = resetState.isLoading
    /\ error' = resetState.error
    /\ activeTool' = resetState.activeTool
    /\ editText' = resetState.editText
    /\ reading' = RemoveAt(reading, i)
    /\ last' = Event("uploaded", reading[i])
    /\ UNCHANGED << pending, started >>

\* handleFileChange, catch branch: fileToBase64 rejected
ReadRejectsClearing(i) ==
    /\ i \in 1..Len(reading)
    /\ error' = MsgReadFailed
    /\ originalImage' = NULL
    /\ file' = NULL
    /\ reading' = RemoveAt(reading, i)
    /\ last' = Event("readFailed", reading[i])
    /\ UNCHANGED << processedImages, isLoading, activeTool, editText, pending,
                    started >>
ReadRejects(i) ==
    /\ i \in 1..Len(reading)
    /\ error' = MsgReadFailed
    /\ reading' = RemoveAt(reading, i)
    /\ last' = Event("readFailed", reading[i])
    /\ UNCHANGED << originalImage, processedImages, file, isLoading, activeTool,
                    editText, pending, started >>

\* onClick={() => setActiveTool(tool)} of a tab
SelectToolClearing(t) ==
    /\ EditorRendered
    /\ activeTool' = t
    /\ processedImages' = [processedImages EXCEPT ![t] = Null]
    /\ last' = Event("selectTool", t)
    /\ UNCHANGED << originalImage, file, isLoading, error, editText, reading,
                    pending, started >>
SelectTool(t) ==
    /\ EditorRendered
    /\ activeTool' = t
    /\ last' = Event("selectTool", t)
    /\ UNCHANGED << originalImage, processedImages, file, isLoading, error,
                    editText, reading, pending, started >>

\* onChange={(e) => setEditText(e.target.value)} of the textarea, which is
\* rendered when activeTool === 'edit'
SetEditText(s) ==
    /\ EditorRendered
    /\ activeTool = "edit"
    /\ s # editText
    /\ editText' = s
    /\ last' = Event("setEditText", "")
    /\ UNCHANGED << originalImage, processedImages, file, isLoading, error,
                    activeTool, reading, pending, started >>

\* if (activeTool === 'edit' && !editText.trim())
EditTextMissingUntrimmed == activeTool = "edit" /\ editText = << >>
EditTextMissing == activeTool = "edit" /\ Trim(editText) = << >>

\* the call handleProcessImage makes, and what its closure holds while it is
\* suspended: activeTool, originalImage, file.type and editText as they were
\* when the handler ran.  `stale` records that the reset button was pressed
\* since.
Invocation ==
    [tool |-> activeTool, image |-> originalImage, type |-> FileType(file),
     prompt |-> IF activeTool = "edit" THEN editText ELSE << >>,
     stale |-> FALSE]

\* setProcessedImages(prev => ({ ...prev, [activeTool]: null }))
ClearAllSlots(prev, tool) == [t \in Tool |-> Null]
ClearSlot(prev, tool) == [prev EXCEPT ![tool] = Null]

\* a click on the process button: nothing when the button is disabled,
\* otherwise handleProcessImage up to its await
ClickProcess ==
    /\ EditorRendered
    /\ last' = Event(IF isLoading THEN "processWhileLoading" ELSE "process", activeTool)
    /\ IF ProcessDisabled
       THEN UNCHANGED << session, reading, pending, started >>
       ELSE IF originalImage = NULL \/ file = NULL
       THEN /\ error' = MsgUploadFirst
            /\ UNCHANGED << originalImage, processedImages, file, isLoading,
                            activeTool, editText, reading, pending, started >>
       ELSE IF EditTextMissing
       THEN /\ error' = MsgEditTextMissing
            /\ UNCHANGED << originalImage, processedImages, file, isLoading,
                            activeTool, editText, reading, pending, started >>
       ELSE /\ started < MaxStarts
            /\ isLoading' = TRUE
            /\ error' = NULL
            /\ processedImages' = ClearSlot(processedImages, activeTool)
            /\ pending' = Append(pending, Invocation)
            /\ started' = started + 1
            /\ UNCHANGED << originalImage, file, activeTool, editText, reading >>

\* the key of setProcessedImages(prev => ({...prev, [activeTool]: ...})) after
\* the await: the activeTool of the closure
ResultKeyLive(call) == activeTool
ResultKey(call) == call.tool

\* `data:${result.mimeType};base64,${result.data}`
DataUrl(result) == << "data:" >> \o result.mimeType \o << ";base64," >> \o result.data

\* handleProcessImage after the transform resolved, and its finally
TransformResolves(i, mime) ==
    /\ i \in 1..Len(pending)
    /\ LET call == pending[i]
           result == [data |-> TransformData(call), mimeType |-> mime]
       IN  /\ processedImages' =
                 [processedImages EXCEPT
                     ![ResultKey(call)] = ProcessedImage(DataUrl(result), result.mimeType)]
           /\ last' = Event("resolved", call.tool)
    /\ isLoading' = FALSE
    /\ pending' = RemoveAt(pending, i)
    /\ UNCHANGED << originalImage, file, error, activeTool, editText, reading,
                    started >>

\* handleProcessImage, catch branch and finally
TransformRejects(i, err) ==
    /\ i \in 1..Len(pending)
    /\ error' = ProcessFailed(errorMessage(err))
    /\ isLoading' = FALSE
    /\ pending' = RemoveAt(pending, i)
    /\ last' = Event("rejected", pending[i].tool)
    /\ UNCHANGED << originalImage, processedImages, file, activeTool, editText,
                    reading, started >>

\* onClick={() => resetState(true)}
ClickReset ==
    /\ EditorRendered
    /\ originalImage' = resetState.originalImage
    /\ processedImages' = resetState.processedImages
    /\ file' = resetState.file
    /\ isLoading' = resetState.isLoading
    /\ error' = resetState.error
    /\ activeTool' = resetState.activeTool
    /\ editText' = resetState.editText
    /\ pending' = [i \in 1..Len(pending) |-> [pending[i] EXCEPT !.stale = TRUE]]
    /\ last' = Event("reset", "")
    /\ UNCHANGED << reading, started >>

Next ==
    \/ \E f \in Files : FileAccepted(f)
    \/ \E f \in Files \cup {NoFile} : FileRejected(f)
    \/ \E i \in 1..MaxStarts : ReadResolves(i)
    \/ \E i \in 1..MaxStarts : ReadRejects(i)
    \/ \E t \in Tool : SelectTool(t)
    \/ \E s \in Texts : SetEditText(s)
    \/ ClickProcess
    \/ \E i \in 1..MaxStarts, mime \in ResultMimes : TransformResolves(i, mime)
    \/ \E i \in 1..MaxStarts, err \in Rejections : TransformRejects(i, err)
    \/ ClickReset

Spec == Init /\ [][Next]_vars

----------------------------------------------------------------------------
(* Properties *)

\* the step completes (resolves or rejects) the suspended call pending[i]
Completes(i) ==
    /\ i \in 1..Len(pending)
    /\ pending' = RemoveAt(pending, i)
    /\ last'.op \in {"resolved", "rejected"}

\* the slot value a successful completion of `call` stores
StoredResult(call, slot) ==
    /\ Truthy(slot)
    /\ slot.mimeType \in ResultMimes
    /\ slot.dataUrl = DataUrl([data |-> TransformData(call), mimeType |-> slot.mimeType])

\* C1: when a transform issued while activeTool = A resolves successfully
\* after the user has switched to another tool B, the result is stored in
\* slot A, and slot B, which currentResult reads, is unchanged.
RaceCorrectness ==
    [][ \A i \in 1..Len(pending) :
          ( /\ Completes(i)
            /\ last'.op = "resolved"
            /\ pending[i].tool # activeTool )
          => /\ StoredResult(pending[i], processedImages'[pending[i].tool])
             /\ activeTool' = activeTool
             /\ processedImages'[activeTool] = processedImages[activeTool]
      ]_vars

\* C1 witness: a transform of enhance has resolved while the edit tab is
\* shown; its result is in the enhance slot and the edit slot shows nothing.
RaceCorrectnessWitness ==
    /\ last.op = "resolved"
    /\ last.arg = "enhance"
    /\ activeTool = "edit"
    /\ started = 2
    /\ originalImage # NULL
    /\ Truthy(processedImages["enhance"])
    /\ ~ Truthy(currentResult)

\* C2: a call that was pending when the reset button was pressed changes no
\* field of the session when it later resolves or rejects.
ResetDuringFlight ==
    [][ \A i \in 1..Len(pending) :
          (Completes(i) /\ pending[i].stale) => UNCHANGED session
      ]_vars

\* C3: at most one transform call is outstanding in every reachable state.
AtMostOneInFlight == Len(pending) <= 1

\* C4: a click on the process button while isLoading is set issues no
\* transform call and changes no field of the session.
SingleFlight ==
    [][ (last'.op \in {"process", "processWhileLoading"} /\ isLoading)
          => /\ pending' = pending
             /\ started' = started
             /\ UNCHANGED session
      ]_vars

\* C4 witness: the process button was clicked a second time while the first
\* call was pending; one call has been issued.
SingleFlightWitness ==
    /\ last.op = "processWhileLoading"
    /\ isLoading
    /\ Len(pending) = 1
    /\ Len(reading) = 0
    /\ started = 2

\* C5: right after an upload completes, every slot of processedImages is
\* empty, originalImage and file are those of the new file, activeTool is
\* removeText, editText is empty, isLoading is false and error is null.
UploadInvalidation ==
    last.op = "uploaded"
        => /\ processedImages = EmptyResults
           /\ originalImage = fileToBase64(last.arg)
           /\ file = last.arg
           /\ StartsWithImage(FileType(file))
           /\ activeTool = "removeText"
           /\ editText = << >>
           /\ ~ isLoading
           /\ error = NULL

\* C5 witness: an upload has completed in a session that held a cached result.
UploadInvalidationWitness ==
    /\ last.op = "uploaded"
    /\ last.overResults
    /\ Filled(processedImages) = 0

\* C6: a click on the process button changes no slot but that of activeTool,
\* the completion of a call changes no slot but that of the tool it was
\* issued for, and a slot receives a result only from the successful
\* completion of a call issued for its tool.
ToolIsolation ==
    [][ /\ \A B \in Tool \ {activeTool} :
              last'.op \in {"process", "processWhileLoading"}
                  => processedImages'[B] = processedImages[B]
        /\ \A i \in 1..Len(pending) :
              Completes(i)
                  => \A B \in Tool \ {pending[i].tool} :
                        processedImages'[B] = processedImages[B]
        /\ \A T \in Tool :
              (Truthy(processedImages'[T]) /\ processedImages'[T] # processedImages[T])
                  => \E i \in 1..Len(pending) :
                        /\ Completes(i)
                        /\ last'.op = "resolved"
                        /\ pending[i].tool = T
                        /\ StoredResult(pending[i], processedImages'[T])
      ]_vars

\* C6 witness: a transform of enhance has resolved while the result of an
\* earlier transform of edit is cached; both slots hold their own result.
ToolIsolationWitness ==
    /\ last.op = "resolved"
    /\ last.arg = "enhance"
    /\ Truthy(processedImages["enhance"])
    /\ Truthy(processedImages["edit"])
    /\ processedImages["edit"].dataUrl[6] = "edit"
    /\ processedImages["enhance"].dataUrl[6] = "enhance"

\* the text holds nothing but blanks
OnlyBlanks(text) == \A k \in 1..Len(text) : text[k] = " "

\* C7: a click on the process button when originalImage is absent, or when
\* activeTool is edit and editText holds nothing but blanks, issues no
\* transform call, does not set isLoading and changes nothing of the session
\* but the error message.
ProcessValidation ==
    [][ ( /\ last'.op \in {"process", "processWhileLoading"}
          /\ \/ originalImage = NULL
             \/ activeTool = "edit" /\ OnlyBlanks(editText) )
          => /\ pending' = pending
             /\ started' = started
             /\ isLoading' = isLoading
             /\ UNCHANGED << originalImage, processedImages, file, activeTool, editText >>
             /\ ~ isLoading => error' \in {MsgUploadFirst, MsgEditTextMissing}
      ]_vars

\* C7 witness: the process button was clicked with the edit tool and a text
\* of blanks; the message is shown and no call was issued.
ProcessValidationWitness ==
    /\ last.op = "process"
    /\ activeTool = "edit"
    /\ editText = << " ", " " >>
    /\ error = MsgEditTextMissing
    /\ pending = << >>
    /\ ~ isLoading
    /\ started = 1

\* C8: when the transform of tool T rejects, an error message is recorded,
\* slot T is empty, the other slots and originalImage are unchanged and
\* isLoading is cleared.
TransformFailure ==
    [][ \A i \in 1..Len(pending) :
          (Completes(i) /\ last'.op = "rejected")
          => /\ error' \in TransformErrors
             /\ ~ Truthy(processedImages'[pending[i].tool])
             /\ \A B \in Tool \ {pending[i].tool} :
                   processedImages'[B] = processedImages[B]
             /\ originalImage' = originalImage
             /\ file' = file
             /\ ~ isLoading'
      ]_vars

\* C9: a file that is rejected for its type, or whose read fails, leaves
\* originalImage, file and every slot of processedImages unchanged.
FailedUpload ==
    [][ last'.op \in {"fileRejected", "readFailed"}
          => UNCHANGED << originalImage, file, processedImages >>
      ]_vars

\* C9 witness: the read of a second file has failed in a session that holds
\* an image and a cached result.
FailedUploadWitness ==
    /\ last.op = "readFailed"
    /\ error = MsgReadFailed
    /\ originalImage # NULL
    /\ file # NULL
    /\ Filled(processedImages) > 0

\* the status of the session: Processing while isLoading, Errored while the
\* message of a failed transform is shown, Uploading while a file is read and
\* no image is held
Status ==
    IF isLoading THEN "Processing"
    ELSE IF error \in TransformErrors THEN "Errored"
    ELSE IF originalImage # NULL THEN "Ready"
    ELSE IF reading # << >> THEN "Uploading"
    ELSE "Idle"

\* C10: originalImage is present if and only if the status is Ready,
\* Processing or Errored.
StatusInvariant ==
    (originalImage # NULL) <=> (Status \in {"Ready", "Processing", "Errored"})

\* C11: in every reachable state the slot of the tool of every outstanding
\* transform call holds no result.
NoStaleResult ==
    \A i \in 1..Len(pending) : ~ Truthy(processedImages[pending[i].tool])

\* C12: right after the reset button is pressed the session is the initial
\* one: no image, no file, every slot empty, activeTool removeText, editText
\* empty, not loading, no error.
ResetToInitial ==
    last.op = "reset"
        => /\ originalImage = NULL
           /\ file = NULL
           /\ processedImages = EmptyResults
           /\ activeTool = "removeText"
           /\ editText = << >>
           /\ ~ isLoading
           /\ error = NULL

\* C12 witness: the reset button was pressed while a transform of another
\* tool than removeText was outstanding, after an earlier call had completed.
ResetToInitialWitness ==
    /\ last.op = "reset"
    /\ Len(pending) = 1
    /\ pending[1].stale
    /\ pending[1].tool = "edit"
    /\ started = 3
    /\ originalImage = NULL

\* C13: a click on a tab sets activeTool to the tab's tool and changes
\* nothing else: no slot, not the image, the file, the text, isLoading or the
\* error, and the outstanding calls and the tools they were issued for stay
\* as they are.
SelectToolFrame ==
    [][ last'.op = "selectTool"
          => /\ activeTool' = last'.arg
             /\ UNCHANGED << originalImage, processedImages, file, isLoading,
                             error, editText, reading, pending, started >>
      ]_vars

\* C13 witness: another tab was selected while a transform of enhance was
\* outstanding; the call is still outstanding, for enhance.
SelectToolFrameWitness ==
    /\ last.op = "selectTool"
    /\ last.arg = "colorize"
    /\ activeTool = "colorize"
    /\ isLoading
    /\ Len(pending) = 1
    /\ pending[1].tool = "enhance"
    /\ processedImages["enhance"] = Null
    /\ processedImages["colorize"] = Undefined

----------------------------------------------------------------------------
(* The download link *)

\* the argument of getFileExtension when result.mimeType is undefined (as a
\* string, "undefined" has no '/' and gives the same extension)
NoMimeType == << "undefined" >>

\* String.prototype.split('/'): the pieces between the '/' tokens
RECURSIVE Split(_)
Split(s) ==
    IF \A k \in 1..Len(s) : s[k] # "/" THEN << s >>
    ELSE LET k == CHOOSE j \in 1..Len(s) :
                      s[j] = "/" /\ \A h \in 1..(j - 1) : s[h] # "/"
         IN  << SubSeq(s, 1, k - 1) >> \o Split(SubSeq(s, k + 1, Len(s)))

\* if (!mimeType) return 'png'; return mimeType.split('/')[1] || 'png'
getFileExtensionNoDefault(mimeType) ==
    IF mimeType = NoMimeType \/ mimeType = << >> THEN << "png" >>
    ELSE LET parts == Split(mimeType)
         IN  IF Len(parts) >= 2 THEN parts[2] ELSE << >>
getFileExtension(mimeType) ==
    IF mimeType = NoMimeType \/ mimeType = << >> THEN << "png" >>
    ELSE LET parts == Split(mimeType)
         IN  IF Len(parts) >= 2 /\ parts[2] # << >> THEN parts[2] ELSE << "png" >>

\* the download attribute of the link, << >> when no link is rendered:
\* {currentResult && <a download={`${activeTool}-resultado.${...}`}>}
DownloadLink ==
    IF EditorRendered /\ Truthy(currentResult)
    THEN << activeTool, "-resultado." >> \o getFileExtension(currentResult.mimeType)
    ELSE << >>

\* MIME types of results for which the link is computed
DownloadMimes ==
    { NoMimeType,
      << >>,
      << "image" >>,
      << "image", "/" >>,
      << "/", "png" >>,
      << "image", "/", "png" >>,
      << "image", "/", "jpeg" >>,
      << "image", "/", "webp" >>,
      << "image", "/", "svg", "+", "xml" >>,
      << "image", "/", "png", ";", "q=1" >>,
      << "image", "/", "/", "png" >>,
      << "image", "/", "png", "/", "x" >> }

\* a session in which the transform of every tool has resolved with a result
\* of MIME type m, shown under any tab
InitDownload ==
    /\ originalImage = fileToBase64("a.png")
    /\ file = "a.png"
    /\ \E m \in DownloadMimes :
          processedImages =
              [t \in Tool |->
                  ProcessedImage(
                      DataUrl([data |-> TransformData([tool |-> t, image |-> originalImage]),
                               mimeType |-> m]),
                      m)]
    /\ isLoading = FALSE
    /\ error = NULL
    /\ activeTool \in Tool
    /\ editText = << >>
    /\ reading = << >>
    /\ pending = << >>
    /\ started = 1 + Cardinality(Tool)
    /\ last \in { [op |-> "resolved", arg |-> t, overResults |-> FALSE] : t \in Tool }

NextDownload == \E t \in Tool : SelectTool(t)

SpecDownload == InitDownload /\ [][NextDownload]_vars

\* C14: the download name of the shown result is the active tool,
\* "-resultado." and the part of the result's MIME type after its '/';
\* the extension is png when the MIME type is absent, has no '/' or has
\* nothing after it.  image/png under colorize gives colorize-resultado.png.
DownloadFilename ==
    (EditorRendered /\ Truthy(currentResult))
        => LET m == currentResult.mimeType
               slashes == {k \in 1..Len(m) : m[k] = "/"}
           IN  /\ (m = NoMimeType \/ slashes = {})
                     => DownloadLink = << activeTool, "-resultado.", "png" >>
               /\ (slashes = {Len(m)})
                     => DownloadLink = << activeTool, "-resultado.", "png" >>
               /\ (Cardinality(slashes) = 1 /\ slashes # {Len(m)})
                     => \E k \in slashes :
                           DownloadLink =
                               << activeTool, "-resultado." >> \o SubSeq(m, k + 1, Len(m))
               /\ (activeTool = "colorize" /\ m = << "image", "/", "png" >>)
                     => DownloadLink = << "colorize", "-resultado.", "png" >>

\* C14 witness: the colorize tab was selected and its result of type
\* image/png is offered as colorize-resultado.png.
DownloadFilenameWitness ==
    /\ last.op = "selectTool"
    /\ activeTool = "colorize"
    /\ Truthy(currentResult)
    /\ currentResult.mimeType = << "image", "/", "png" >>
    /\ DownloadLink = << "colorize", "-resultado.", "png" >>

----------------------------------------------------------------------------
(* The result panel *)

\* what the result panel shows: nothing while no image is held (the panel
\* is inside {originalImage && ...}); for a result, the ImageComparator
\* under enhance, restore and colorize and an <img> under the other tools;
\* otherwise the placeholder text, unless the spinner is shown
ResultView ==
    IF ~ EditorRendered
    THEN [view |-> "none", original |-> NULL, edited |-> << >>]
    ELSE IF Truthy(currentResult)
    THEN IF activeTool = "enhance" \/ activeTool = "restore" \/ activeTool = "colorize"
         THEN [view |-> "ImageComparator", original |-> originalImage,
               edited |-> currentResult.dataUrl]
         ELSE [view |-> "img", original |-> NULL, edited |-> currentResult.dataUrl]
    ELSE IF ~ isLoading
    THEN [view |-> "placeholder", original |-> NULL, edited |-> << >>]
    ELSE [view |-> "none", original |-> NULL, edited |-> << >>]

\* C15: in every state the comparator is shown, with originalImage and the
\* result of the active tool, exactly when that result is present and the
\* active tool is enhance, restore or colorize; a result present under
\* removeText, removeBackground or edit is shown directly; no result is
\* shown when the slot of the active tool is empty.
DisplayRouting ==
    /\ (ResultView.view = "ImageComparator")
          <=> (Truthy(currentResult) /\ activeTool \in {"enhance", "restore", "colorize"})
    /\ (ResultView.view = "ImageComparator")
          => /\ ResultView.original = originalImage
             /\ ResultView.edited = currentResult.dataUrl
    /\ (Truthy(currentResult) /\ activeTool \in {"removeText", "removeBackground", "edit"})
          => /\ ResultView.view = "img"
             /\ ResultView.edited = currentResult.dataUrl
    /\ ~ Truthy(currentResult) => ResultView.view \notin {"ImageComparator", "img"}

----------------------------------------------------------------------------
(* Progress *)

\* the transform service settles an outstanding call
Completion ==
    \E i \in 1..MaxStarts :
        \/ \E mime \in ResultMimes : TransformResolves(i, mime)
        \/ \E err \in Rejections : TransformRejects(i, err)

\* the program with a service that eventually resolves or rejects every call
SpecLive == Init /\ [][Next]_vars /\ WF_vars(Completion)

\* isLoading, once set, is eventually cleared
ProcessingEnds == isLoading ~> ~ isLoading

\* the session is Ready when a call has resolved and Errored when a call has
\* rejected
EndsByOutcome ==
    [][ \A i \in 1..Len(pending) :
          Completes(i)
          => /\ last'.op = "resolved" => Status' = "Ready"
             /\ last'.op = "rejected" => Status' = "Errored"
      ]_vars

\* C16: with a service that settles every call, isLoading is eventually
\* cleared after every accepted click on the process button, and the session
\* is Ready after a success and Errored after a failure.
ReturnToInteractivity == ProcessingEnds /\ EndsByOutcome

----------------------------------------------------------------------------
(* Implicit properties *)

\* C17: in every reachable state isLoading is set if and only if a transform
\* call is outstanding.
LoadingMirrorsInFlight == isLoading <=> (Len(pending) > 0)

\* the image a cached result was computed from: the last token of its data
\* URL, result.data being the transform of a tool and an image
SourceImage(slot) == slot.dataUrl[Len(slot.dataUrl)]

\* C18: in every reachable state every result cached in processedImages was
\* computed from the originalImage the session holds.
ResultProvenance ==
    \A t \in Tool :
        Truthy(processedImages[t]) => SourceImage(processedImages[t]) = originalImage

\* C19: originalImage is present if and only if file is, originalImage is
\* the data URL of file, and every outstanding transform call was invoked
\* with the data URL and the type of one and the same file.
ImageMimePairing ==
    /\ (originalImage # NULL) <=> (file # NULL)
    /\ file # NULL
          => /\ file \in Files
             /\ StartsWithImage(FileType(file))
             /\ originalImage = fileToBase64(file)
    /\ \A i \in 1..Len(pending) :
          \E f \in Files :
              /\ StartsWithImage(FileType(f))
              /\ pending[i].image = fileToBase64(f)
              /\ pending[i].type = FileType(f)

\* C19 witness: after a.png was replaced by b.jpg, a transform was invoked
\* with the data URL and the type of b.jpg.
ImageMimePairingWitness ==
    /\ last.op = "process"
    /\ file = "b.jpg"
    /\ originalImage = fileToBase64("b.jpg")
    /\ Len(pending) = 2
    /\ pending[1].image = fileToBase64("a.png")
    /\ pending[1].type = << "image", "/", "png" >>
    /\ pending[2].image = fileToBase64("b.jpg")
    /\ pending[2].type = << "image", "/", "jpeg" >>

====
